---- MODULE Spec2Model ----
\* The snapshot blob container of src/snapshot/snapshot.cc: layout, assembly
\* (CreateSnapshotBlob), validation (CheckVersion, VerifyChecksum), extraction
\* (Extract*), the consumer flows Initialize / NewContextFromSnapshot (Spec),
\* and the blob-building flows CreateSnapshotDataBlobInternal /
\* WarmUpSnapshotDataBlobInternal (CreatorSpec).
\*
\* A blob is a sequence of bytes; byte offset o of the C++ buffer is element
\* o + 1 of the sequence.  Header words are 4-byte little-endian values.
EXTENDS Integers, Sequences, FiniteSets, TLC

VARIABLES
    pointer_size,    \* kSystemPointerSize of the build (4 or 8)
    snapshot_blob,   \* isolate->snapshot_blob(): [present, has_data, data]
    input,           \* the arguments of the CreateSnapshotBlob call that made the blob
    pristine,        \* TRUE while data is exactly what CreateSnapshotBlob returned
    tampered,        \* byte offsets overwritten since assembly
    last,            \* outcome of the last operation run against the blob
    creator          \* the blob-building flow in progress (fresh build / warm-up)

vars == <<pointer_size, snapshot_blob, input, pristine, tampered, last, creator>>

\* ---------------------------------------------------------------- bounds
MaxContexts == 2
MaxSegLen == 2

\* ------------------------------------------------------- layout constants
kUInt32Size == 4
kInt32Size == 4
kNumberOfContextsOffset == 0
kRehashabilityOffset == kNumberOfContextsOffset + kUInt32Size
kChecksumOffset == kRehashabilityOffset + kUInt32Size
kVersionStringOffset == kChecksumOffset + kUInt32Size
kVersionStringLength == 64
kReadOnlyOffsetOffset == kVersionStringOffset + kVersionStringLength
kFirstContextOffsetOffset == kReadOnlyOffsetOffset + kUInt32Size

\* The model checker's integers are 32-bit signed: the inputs below keep
\* every header word and every sum of them under 2^31 (an evaluation that
\* left that range would stop the evaluation, not wrap), and the one uint32
\* result that can exceed it, a difference of two offsets, is kept as its
\* bit 31 and its low 31 bits.
kMaxInt == 2147483647

\* uint32_t a - b, for a, b < 2^31: (bit 31, bits 0..30) of the difference.
Sub32(a, b) ==
    IF a >= b THEN [hi |-> 0, lo |-> a - b]
    ELSE [hi |-> 1, lo |-> (kMaxInt - (b - a)) + 1]

\* ------------------------------------------------------------ byte access
Byte(value, k) ==
    IF k = 0 THEN value % 256
    ELSE IF k = 1 THEN (value \div 256) % 256
    ELSE IF k = 2 THEN (value \div 65536) % 256
    ELSE (value \div 16777216) % 256

\* A read that leaves the buffer is undefined: it yields whatever lies behind
\* the buffer, given here by g (a triple of words; neighbouring header words
\* take different slots of it).
Slot(offset) == IF offset = 0 THEN 1 ELSE 2 + ((offset \div 4) % 2)

OutOfBounds(g, offset) == g[Slot(offset)]

InBounds(data, offset) == offset >= 0 /\ offset + kUInt32Size <= Len(data)

GetHeaderValue(data, offset, g) ==
    IF InBounds(data, offset)
    THEN data[offset + 1] + 256 * data[offset + 2]
         + 65536 * data[offset + 3] + 16777216 * data[offset + 4]
    ELSE OutOfBounds(g, offset)

SetHeaderValue(data, offset, value) ==
    [data EXCEPT ![offset + 1] = Byte(value, 0), ![offset + 2] = Byte(value, 1),
                 ![offset + 3] = Byte(value, 2), ![offset + 4] = Byte(value, 3)]

\* CopyBytes(data + offset, src, Len(src))
CopyBytes(data, offset, src) ==
    SubSeq(data, 1, offset) \o src
        \o SubSeq(data, offset + Len(src) + 1, Len(data))

\* memset(data + offset, value, n)
Memset(data, offset, value, n) ==
    CopyBytes(data, offset, [i \in 1..n |-> value])

\* ------------------------------------------------------------ Layout Codec
PointerSizeAlign(x, ps) == ((x + ps - 1) \div ps) * ps

StartupSnapshotOffset(num_contexts, ps) ==
    PointerSizeAlign(kFirstContextOffsetOffset + num_contexts * kInt32Size, ps)

ContextSnapshotOffsetOffset(index) ==
    kFirstContextOffsetOffset + index * kInt32Size

\* The checksummed bytes: from kChecksumStart to raw_size.
ChecksumStartAtChecksumField(data) ==
    SubSeq(data, kChecksumOffset + 1, Len(data))

ChecksummedContent(data) ==
    SubSeq(data, kVersionStringOffset + 1, Len(data))

\* ------------------------------------------------------ Integrity Validator
\* Checksum(payload) of snapshot-utils: a position-sensitive pair of running
\* sums over the bytes (Adler/Fletcher style): a = 1 + the sum of the bytes,
\* b = the sum of the successive values of a; both reduced modulo the prime
\* 32749 so that the result stays below 2^31.
RECURSIVE ByteSum(_, _, _)
ByteSum(payload, lo, hi) ==
    IF lo > hi THEN 0
    ELSE IF lo = hi THEN payload[lo]
    ELSE LET mid == (lo + hi) \div 2
         IN ByteSum(payload, lo, mid) + ByteSum(payload, mid + 1, hi)

RECURSIVE WeightedSum(_, _, _)
WeightedSum(payload, lo, hi) ==
    IF lo > hi THEN 0
    ELSE IF lo = hi THEN (Len(payload) - lo + 1) * payload[lo]
    ELSE LET mid == (lo + hi) \div 2
         IN WeightedSum(payload, lo, mid) + WeightedSum(payload, mid + 1, hi)

Checksum(payload) ==
    LET n == Len(payload)
        a == (1 + ByteSum(payload, 1, n)) % 32749
        b == (n + WeightedSum(payload, 1, n)) % 32749
    IN b * 32768 + a

\* Version::GetString(buffer): prints the version as a C string into the
\* buffer, cut to its length, and NUL-terminates it.
GetString(data, offset, length, version) ==
    LET n == IF Len(version) < length THEN Len(version) ELSE length - 1
    IN CopyBytes(data, offset, SubSeq(version, 1, n) \o <<0>>)

\* The version of the running binary, as Version::GetString prints it into a
\* zeroed kVersionStringLength buffer.
VersionBuffer(version) ==
    GetString([i \in 1..kVersionStringLength |-> 0], 0, kVersionStringLength,
              version)

\* ------------------------------------------------------------ Blob Assembler
RECURSIVE TotalLength(_, _)
TotalLength(contexts, i) ==
    IF i > Len(contexts) THEN 0
    ELSE Len(contexts[i]) + TotalLength(contexts, i + 1)

\* new char[total_length]: the bytes are not initialised; 205 stands for the
\* allocator's fill, every byte is written before the blob is returned.
NewCharArray(n) == [i \in 1..n |-> 205]

\* The loop with the offset recorded after the advance instead of before it.
RECURSIVE WriteContextsOffsetAfterCopy(_, _, _, _)
WriteContextsOffsetAfterCopy(data, contexts, i, payload_offset) ==
    IF i > Len(contexts) THEN data
    ELSE LET d1 == CopyBytes(data, payload_offset, contexts[i])
             d2 == SetHeaderValue(d1, ContextSnapshotOffsetOffset(i - 1),
                                  payload_offset + Len(contexts[i]))
         IN WriteContextsOffsetAfterCopy(d2, contexts, i + 1,
                                         payload_offset + Len(contexts[i]))

\* The loop over the context snapshots: record the running offset in the
\* header, copy the bytes, advance.
RECURSIVE WriteContexts(_, _, _, _)
WriteContexts(data, contexts, i, payload_offset) ==
    IF i > Len(contexts) THEN data
    ELSE LET d1 == SetHeaderValue(data, ContextSnapshotOffsetOffset(i - 1),
                                  payload_offset)
             d2 == CopyBytes(d1, payload_offset, contexts[i])
         IN WriteContexts(d2, contexts, i + 1, payload_offset + Len(contexts[i]))

\* The last write of CreateSnapshotBlob: the checksum of the finished buffer.
WriteChecksumOverChecksumField(data) ==
    SetHeaderValue(data, kChecksumOffset,
                   Checksum(ChecksumStartAtChecksumField(data)))

WriteChecksum(data) ==
    SetHeaderValue(data, kChecksumOffset, Checksum(ChecksummedContent(data)))

\* The assembler with payload_offset not advanced past the startup segment.
AssembleStartupNotSkipped(startup, read_only, contexts, can_be_rehashed, version, ps) ==
    LET num_contexts == Len(contexts)
        startup_snapshot_offset == StartupSnapshotOffset(num_contexts, ps)
        total_length == startup_snapshot_offset + Len(startup)
                        + Len(read_only) + TotalLength(contexts, 1)
        d0 == NewCharArray(total_length)
        d1 == Memset(d0, 0, 0, StartupSnapshotOffset(num_contexts, ps))
        d2 == SetHeaderValue(d1, kNumberOfContextsOffset, num_contexts)
        d3 == SetHeaderValue(d2, kRehashabilityOffset,
                             IF can_be_rehashed THEN 1 ELSE 0)
        d4 == Memset(d3, kVersionStringOffset, 0, kVersionStringLength)
        d5 == GetString(d4, kVersionStringOffset, kVersionStringLength, version)
        d6 == CopyBytes(d5, startup_snapshot_offset, startup)
        read_only_offset == startup_snapshot_offset
        d7 == SetHeaderValue(d6, kReadOnlyOffsetOffset, read_only_offset)
        d8 == CopyBytes(d7, read_only_offset, read_only)
    IN WriteContexts(d8, contexts, 1, read_only_offset + Len(read_only))

\* The header and payload before the checksum is written.
AssembleUnchecked(startup, read_only, contexts, can_be_rehashed, version, ps) ==
    LET num_contexts == Len(contexts)
        startup_snapshot_offset == StartupSnapshotOffset(num_contexts, ps)
        total_length == startup_snapshot_offset + Len(startup)
                        + Len(read_only) + TotalLength(contexts, 1)
        d0 == NewCharArray(total_length)
        d1 == Memset(d0, 0, 0, StartupSnapshotOffset(num_contexts, ps))
        d2 == SetHeaderValue(d1, kNumberOfContextsOffset, num_contexts)
        d3 == SetHeaderValue(d2, kRehashabilityOffset,
                             IF can_be_rehashed THEN 1 ELSE 0)
        d4 == Memset(d3, kVersionStringOffset, 0, kVersionStringLength)
        d5 == GetString(d4, kVersionStringOffset, kVersionStringLength, version)
        d6 == CopyBytes(d5, startup_snapshot_offset, startup)
        read_only_offset == startup_snapshot_offset + Len(startup)
        d7 == SetHeaderValue(d6, kReadOnlyOffsetOffset, read_only_offset)
        d8 == CopyBytes(d7, read_only_offset, read_only)
    IN WriteContexts(d8, contexts, 1, read_only_offset + Len(read_only))

CreateSnapshotBlobData(startup, read_only, contexts, can_be_rehashed, version, ps) ==
    WriteChecksum(AssembleUnchecked(startup, read_only, contexts,
                                    can_be_rehashed, version, ps))

\* ------------------------------------------------------------ Blob Extractor
\* Outcome of a call: the fatal path (CHECK failure / FATAL), a view
\* (start offset, length) or a value.
\* A view's length is length_hi * 2^31 + length.
Fatal ==
    [fatal |-> TRUE, start |-> 0, length_hi |-> 0, length |-> 0, value |-> 0]
View(start, len) ==
    [fatal |-> FALSE, start |-> start, length_hi |-> len.hi,
     length |-> len.lo, value |-> 0]
Value(v) ==
    [fatal |-> FALSE, start |-> 0, length_hi |-> 0, length |-> 0, value |-> v]

ExtractNumContexts(data, g) ==
    IF ~(kNumberOfContextsOffset < Len(data)) THEN Fatal
    ELSE Value(GetHeaderValue(data, kNumberOfContextsOffset, g))

ExtractContextOffsetUnchecked(data, index, g) ==
    Value(GetHeaderValue(data, ContextSnapshotOffsetOffset(index), g))

ExtractContextOffset(data, index, g) ==
    LET context_offset ==
            GetHeaderValue(data, ContextSnapshotOffsetOffset(index), g)
    IN IF ~(context_offset < Len(data)) THEN Fatal ELSE Value(context_offset)

ExtractRehashability(data, g) ==
    IF ~(kRehashabilityOffset < Len(data)) THEN Fatal
    ELSE LET rehashability == GetHeaderValue(data, kRehashabilityOffset, g)
         IN IF rehashability # 0 /\ rehashability # 1 THEN Fatal
            ELSE Value(IF rehashability # 0 THEN 1 ELSE 0)

ExtractData(data, start_offset, end_offset) ==
    IF ~(start_offset < end_offset) THEN Fatal
    ELSE IF ~(end_offset < Len(data)) THEN Fatal
    ELSE View(start_offset, Sub32(end_offset, start_offset))

\* DCHECK(Snapshot::SnapshotIsValid(data)): compiled in debug builds only.
SnapshotIsValid(data, g) ==
    LET n == ExtractNumContexts(data, g)
    IN IF n.fatal THEN Fatal ELSE Value(IF n.value > 0 THEN 1 ELSE 0)

DcheckSnapshotIsValidFails(data, g, debug) ==
    debug /\ (SnapshotIsValid(data, g).fatal \/ SnapshotIsValid(data, g).value = 0)

ExtractStartupData(data, ps, g, debug) ==
    IF DcheckSnapshotIsValidFails(data, g, debug) THEN Fatal
    ELSE LET n == ExtractNumContexts(data, g)
         IN IF n.fatal THEN Fatal
            ELSE ExtractData(data, StartupSnapshotOffset(n.value, ps),
                             GetHeaderValue(data, kReadOnlyOffsetOffset, g))

ExtractReadOnlyDataToEnd(data, g, debug) ==
    LET n == ExtractNumContexts(data, g)
    IN IF n.fatal THEN Fatal
       ELSE IF n.value = 0
       THEN View(GetHeaderValue(data, kReadOnlyOffsetOffset, g),
                 Sub32(Len(data), GetHeaderValue(data, kReadOnlyOffsetOffset, g)))
       ELSE ExtractData(data, GetHeaderValue(data, kReadOnlyOffsetOffset, g),
                        GetHeaderValue(data, ContextSnapshotOffsetOffset(0), g))

ExtractReadOnlyData(data, g, debug) ==
    IF DcheckSnapshotIsValidFails(data, g, debug) THEN Fatal
    ELSE ExtractData(data, GetHeaderValue(data, kReadOnlyOffsetOffset, g),
                     GetHeaderValue(data, ContextSnapshotOffsetOffset(0), g))

ExtractContextData(data, index, g) ==
    LET n == ExtractNumContexts(data, g)
        num_contexts == n.value
        context_offset == ExtractContextOffset(data, index, g)
        next == ExtractContextOffset(data, index + 1, g)
    IN IF n.fatal THEN Fatal
       ELSE IF ~(index < num_contexts) THEN Fatal
       ELSE IF context_offset.fatal THEN Fatal
       ELSE IF index = num_contexts - 1
       THEN View(context_offset.value, Sub32(Len(data), context_offset.value))
       ELSE IF next.fatal THEN Fatal
       ELSE IF ~(next.value < Len(data)) THEN Fatal
       ELSE View(context_offset.value, Sub32(next.value, context_offset.value))

\* The bytes a view covers, where it lies inside the buffer.
ViewBytes(data, v) ==
    [k \in 1..v.length |-> data[v.start + k]]

\* strncmp(a, b, n) = 0: the bytes agree up to and including the first NUL of
\* a, or on all n bytes when a holds no NUL.
StrncmpEqual(a, b, n) ==
    LET stop == IF \A k \in 1..n : a[k] # 0 THEN n
                ELSE CHOOSE k \in 1..n :
                         a[k] = 0 /\ \A j \in 1..(k - 1) : a[j] # 0
    IN \A k \in 1..stop : a[k] = b[k]

\* memcmp(a, b, n) = 0
MemcmpEqual(a, b, n) == \A k \in 1..n : a[k] = b[k]

VersionField(data) ==
    SubSeq(data, kVersionStringOffset + 1,
           kVersionStringOffset + kVersionStringLength)

CheckVersionMemcmp(data, version) ==
    IF ~(kVersionStringOffset + kVersionStringLength < Len(data)) THEN Fatal
    ELSE IF ~MemcmpEqual(VersionBuffer(version), VersionField(data),
                         kVersionStringLength)
    THEN Fatal
    ELSE Value(1)

CheckVersion(data, version) ==
    IF ~(kVersionStringOffset + kVersionStringLength < Len(data)) THEN Fatal
    ELSE IF ~StrncmpEqual(VersionBuffer(version), VersionField(data),
                          kVersionStringLength)
    THEN Fatal
    ELSE Value(1)

\* ChecksummedContent of a blob shorter than kChecksumStart has a negative
\* length: what Checksum returns for it is undefined.
VerifyChecksum(data, g) ==
    LET expected == GetHeaderValue(data, kChecksumOffset, g)
        result == IF Len(data) >= kVersionStringOffset
                  THEN Checksum(ChecksummedContent(data))
                  ELSE OutOfBounds(g, kVersionStringOffset)
    IN result = expected

\* --------------------------------------------------------- consumer flows
\* isolate->snapshot_available()
snapshot_available(blob) == blob.present /\ Len(blob.data) # 0

HasContextSnapshotUnchecked(blob, index, g) ==
    IF ~blob.present THEN Value(0)
    ELSE IF ~blob.has_data THEN Value(0)
    ELSE Value(IF index < GetHeaderValue(blob.data, kNumberOfContextsOffset, g)
               THEN 1 ELSE 0)

HasContextSnapshot(blob, index, g) ==
    IF ~blob.present THEN Value(0)
    ELSE IF ~blob.has_data THEN Value(0)
    ELSE LET n == ExtractNumContexts(blob.data, g)
         IN IF n.fatal THEN Fatal
            ELSE Value(IF index < n.value THEN 1 ELSE 0)

\* Outcome of a flow: the calls it made, in order (the last one is the one
\* that took the fatal path, if any), and what it returned.
Flow(fatal, value, steps) == [fatal |-> fatal, value |-> value, steps |-> steps]

\* One call of a flow against the blob: TRUE iff it takes the fatal path.
StepFatal(step, blob, version, ps, index, g, debug) ==
    IF step = "CheckVersion" THEN CheckVersion(blob.data, version).fatal
    ELSE IF step = "VerifyChecksum" THEN ~VerifyChecksum(blob.data, g)
    ELSE IF step = "ExtractStartupData"
    THEN ExtractStartupData(blob.data, ps, g, debug).fatal
    ELSE IF step = "ExtractReadOnlyData"
    THEN ExtractReadOnlyData(blob.data, g, debug).fatal
    ELSE IF step = "ExtractRehashability"
    THEN ExtractRehashability(blob.data, g).fatal
    ELSE IF step = "ExtractContextData"
    THEN ExtractContextData(blob.data, index, g).fatal
    ELSE FALSE

\* Runs the calls in program order; stops at the first fatal one.
RECURSIVE RunSteps(_, _, _, _, _, _, _, _, _)
RunSteps(steps, i, blob, version, ps, index, g, debug, decoder) ==
    IF i > Len(steps) THEN Flow(FALSE, decoder, steps)
    ELSE IF StepFatal(steps[i], blob, version, ps, index, g, debug)
    THEN Flow(TRUE, 0, SubSeq(steps, 1, i))
    ELSE RunSteps(steps, i + 1, blob, version, ps, index, g, debug, decoder)

InitializeExtractFirst(blob, version, ps, g, debug, success) ==
    IF ~snapshot_available(blob) THEN Flow(FALSE, 0, <<>>)
    ELSE RunSteps(<<"ExtractStartupData", "ExtractReadOnlyData",
                    "ExtractRehashability", "InitWithSnapshot",
                    "CheckVersion", "VerifyChecksum">>,
                  1, blob, version, ps, 0, g, debug, success)

\* Snapshot::Initialize; success is what isolate->InitWithSnapshot reports (1/0).
Initialize(blob, version, ps, g, debug, success) ==
    IF ~snapshot_available(blob) THEN Flow(FALSE, 0, <<>>)
    ELSE RunSteps(<<"CheckVersion", "VerifyChecksum", "ExtractStartupData",
                    "ExtractReadOnlyData", "ExtractRehashability",
                    "InitWithSnapshot">>,
                  1, blob, version, ps, 0, g, debug, success)

NewContextFromSnapshotNoIndexCheck(blob, index, g, result) ==
    IF ~snapshot_available(blob) THEN Flow(FALSE, 0, <<>>)
    ELSE RunSteps(<<"ExtractRehashability", "DeserializeContext">>,
                  1, blob, <<>>, 0, index, g, FALSE, result)

\* Snapshot::NewContextFromSnapshot; result is what
\* ContextDeserializer::DeserializeContext yields (1: a context, 0: empty).
NewContextFromSnapshot(blob, index, g, result) ==
    IF ~snapshot_available(blob) THEN Flow(FALSE, 0, <<>>)
    ELSE RunSteps(<<"ExtractRehashability", "ExtractContextData",
                    "DeserializeContext">>,
                  1, blob, <<>>, 0, index, g, FALSE, result)

\* ------------------------------------------------------------- input sets
\* kSystemPointerSize of the 32-bit and 64-bit builds.
PointerSizes == {4, 8}

\* What Version::GetString prints: "8.1" for the running binary; "8.10" is
\* another build's version.
RunningVersion == <<56, 46, 49>>
OtherVersion == <<56, 46, 49, 48>>

\* Segment bytes (SnapshotData::RawData()), of length 0 or MaxSegLen.
StartupBytes(n) ==
    [i \in 1..n |-> IF i = 1 THEN 83 ELSE IF i = 2 THEN 0 ELSE 100 + i]
ReadOnlyBytes(n) == [i \in 1..n |-> IF i <= 2 THEN 0 ELSE 120 + i]
ContextBytes(n) == [i \in 1..n |-> 30 + i]

StartupSegments == {StartupBytes(0), StartupBytes(MaxSegLen)}
ReadOnlySegments == {ReadOnlyBytes(0), ReadOnlyBytes(MaxSegLen)}
ContextSegments == {ContextBytes(0), ContextBytes(MaxSegLen)}
ContextLists ==
    UNION {[1..k -> ContextSegments] : k \in 0..MaxContexts}

\* What may lie behind a buffer that is read past its end.
\* The word with the bytes FF FF FF 0F.
kHuge == 16 * 16777216 - 1
Garbage == {0, 1, kHuge}
GarbageFor(data, offsets) ==
    LET slots == {Slot(offset) : offset \in {o \in offsets : ~InBounds(data, o)}}
        Words(k) == IF k \in slots THEN Garbage ELSE {0}
    IN Words(1) \X Words(2) \X Words(3)

\* The header words Initialize and NewContextFromSnapshot read once their
\* first check has passed.
InitializeReads(data) ==
    IF ~(kVersionStringOffset + kVersionStringLength < Len(data)) THEN {}
    ELSE {kReadOnlyOffsetOffset, ContextSnapshotOffsetOffset(0)}

\* The header words ExtractContextData(index) reads.
ContextReads(data, index) ==
    IF ~InBounds(data, kNumberOfContextsOffset)
    THEN {kNumberOfContextsOffset, ContextSnapshotOffsetOffset(index),
          ContextSnapshotOffsetOffset(index + 1)}
    ELSE LET n == GetHeaderValue(data, kNumberOfContextsOffset, <<0, 0, 0>>)
         IN IF ~(index < n) THEN {}
            ELSE IF index = n - 1 THEN {ContextSnapshotOffsetOffset(index)}
            ELSE {ContextSnapshotOffsetOffset(index),
                  ContextSnapshotOffsetOffset(index + 1)}

Indexes == 0..MaxContexts

\* ------------------------------------------------------------------ state
NoBlob == [present |-> FALSE, has_data |-> FALSE, data |-> <<>>]
NullBlob == [present |-> TRUE, has_data |-> FALSE, data |-> <<>>]
DataBlob(data) == [present |-> TRUE, has_data |-> TRUE, data |-> data]

NoInput ==
    [startup |-> <<>>, read_only |-> <<>>, contexts |-> <<>>,
     can_be_rehashed |-> FALSE, version |-> <<>>]

Outcome(op, index, r, steps, decoder) ==
    [op |-> op, index |-> index, fatal |-> r.fatal, start |-> r.start,
     length_hi |-> r.length_hi, length |-> r.length, value |-> r.value,
     steps |-> steps, decoder |-> decoder]

Idle == Outcome("none", 0, Value(0), <<>>, 0)
Created == Outcome("CreateSnapshotBlob", 0, Value(0), <<>>, 0)

\* No blob-building flow is in progress.
NoArgs ==
    [function_code_handling |-> "none", source |-> "null", isolate |-> "null",
     cold_data |-> "null", cold_raw_size |-> 0]
NoSerialization == [context |-> 0, function_code_handling |-> "none"]
NoFlow ==
    [op |-> "none", pc |-> "none", args |-> NoArgs, isolate |-> "null",
     has_creator |-> FALSE, contexts |-> <<>>, script |-> "none",
     run_extra_code |-> "none", notified |-> 0, default_context |-> 0,
     serialized |-> NoSerialization, result |-> "pending"]

Init ==
    /\ pointer_size \in PointerSizes
    /\ snapshot_blob = NoBlob
    /\ input = NoInput
    /\ pristine = FALSE
    /\ tampered = {}
    /\ last = Idle
    /\ creator = NoFlow

\* ---------------------------------------------------------------- actions
\* Calls are synchronous and run one at a time: a call starts when no outcome
\* is pending, and last holds its outcome until the caller takes it.
Ready == last.op \in {"none", "CreateSnapshotBlob"}

\* Snapshot::CreateSnapshotBlob; the blob is then attached to the isolate.
CreateSnapshotBlob ==
    /\ ~snapshot_blob.has_data
    /\ \E startup \in StartupSegments, read_only \in ReadOnlySegments,
          contexts \in ContextLists, can_be_rehashed \in BOOLEAN :
        /\ snapshot_blob' = DataBlob(CreateSnapshotBlobData(
               startup, read_only, contexts, can_be_rehashed, RunningVersion,
               pointer_size))
        /\ input' = [startup |-> startup, read_only |-> read_only,
                     contexts |-> contexts,
                     can_be_rehashed |-> can_be_rehashed,
                     version |-> RunningVersion]
    /\ pristine' = TRUE
    /\ tampered' = {}
    /\ last' = Created
    /\ UNCHANGED <<pointer_size, creator>>

\* The same segments assembled by a binary of another version: the blob the
\* running binary is given comes from that build.
CreateSnapshotBlobByOtherBuild ==
    /\ pristine /\ last = Created /\ input.version = RunningVersion
    /\ snapshot_blob' = DataBlob(CreateSnapshotBlobData(
           input.startup, input.read_only, input.contexts,
           input.can_be_rehashed, OtherVersion, pointer_size))
    /\ input' = [input EXCEPT !.version = OtherVersion]
    /\ last' = Idle
    /\ UNCHANGED <<pointer_size, creator, pristine, tampered>>

\* The embedder attaches no blob, or a StartupData with a null data pointer.
DetachBlob ==
    /\ Ready
    /\ snapshot_blob' \in {NoBlob, NullBlob}
    /\ snapshot_blob' # snapshot_blob
    /\ input' = NoInput
    /\ pristine' = FALSE
    /\ tampered' = {}
    /\ last' = Idle
    /\ UNCHANGED <<pointer_size, creator>>

\* Header words an adversarial or damaged blob may hold in place of the
\* assembled ones, per field.
CorruptWords(data, offset) ==
    IF offset = kNumberOfContextsOffset
    THEN {0, GetHeaderValue(data, offset, <<0, 0, 0>>) + 1, kHuge}
    ELSE IF offset = kRehashabilityOffset THEN {2}
    ELSE IF offset = kChecksumOffset THEN {0}
    ELSE {0, Len(data) - 1, Len(data), Len(data) + 1}

CorruptOffsets(data) ==
    {kNumberOfContextsOffset, kRehashabilityOffset, kChecksumOffset,
     kReadOnlyOffsetOffset}
    \cup {ContextSnapshotOffsetOffset(i) :
            i \in 0..(GetHeaderValue(data, kNumberOfContextsOffset, <<0, 0, 0>>) - 1)}

\* The blob reaches the isolate with one header word overwritten.
CorruptHeader ==
    /\ pristine /\ last = Created
    /\ \E offset \in CorruptOffsets(snapshot_blob.data) :
       \E value \in CorruptWords(snapshot_blob.data, offset) :
        /\ SetHeaderValue(snapshot_blob.data, offset, value) # snapshot_blob.data
        /\ snapshot_blob' =
               DataBlob(SetHeaderValue(snapshot_blob.data, offset, value))
        /\ tampered' = offset..(offset + kUInt32Size - 1)
    /\ pristine' = FALSE
    /\ last' = Idle
    /\ UNCHANGED <<pointer_size, creator, input>>

\* Bytes probed in the version field: the last character of the running
\* version, its NUL, the byte after it, and the last byte of the field.
CorruptVersionOffsets ==
    {kVersionStringOffset + k :
        k \in {Len(RunningVersion) - 1, Len(RunningVersion),
               Len(RunningVersion) + 1, kVersionStringLength - 1}}

\* The blob reaches the isolate with one byte of the version field changed.
CorruptVersion ==
    /\ pristine /\ last = Created
    /\ \E offset \in CorruptVersionOffsets, value \in {0, 65} :
        /\ snapshot_blob.data[offset + 1] # value
        /\ snapshot_blob' =
               DataBlob([snapshot_blob.data EXCEPT ![offset + 1] = value])
        /\ tampered' = {offset}
    /\ pristine' = FALSE
    /\ last' = Idle
    /\ UNCHANGED <<pointer_size, creator, input>>

\* The blob reaches the isolate cut short (raw_size smaller than assembled).
TruncatedSizes(data) ==
    {0, 2, kRehashabilityOffset + 1, kVersionStringOffset,
     kReadOnlyOffsetOffset + 1, Len(data) - 1}

Truncate ==
    /\ pristine /\ last = Created
    /\ \E n \in TruncatedSizes(snapshot_blob.data) :
        /\ snapshot_blob' = DataBlob(SubSeq(snapshot_blob.data, 1, n))
        /\ tampered' = n..(Len(snapshot_blob.data) - 1)
    /\ pristine' = FALSE
    /\ last' = Idle
    /\ UNCHANGED <<pointer_size, creator, input>>

Ran(outcome) ==
    /\ last' = outcome
    /\ UNCHANGED <<pointer_size, creator, snapshot_blob, input, pristine, tampered>>

DoExtractNumContexts ==
    /\ Ready
    /\ snapshot_blob.has_data
    /\ \E g \in GarbageFor(snapshot_blob.data, {kNumberOfContextsOffset}) :
        Ran(Outcome("ExtractNumContexts", 0,
                    ExtractNumContexts(snapshot_blob.data, g), <<>>, 0))

DoExtractRehashability ==
    /\ Ready
    /\ snapshot_blob.has_data
    /\ \E g \in GarbageFor(snapshot_blob.data, {kRehashabilityOffset}) :
        Ran(Outcome("ExtractRehashability", 0,
                    ExtractRehashability(snapshot_blob.data, g), <<>>, 0))

DoCheckVersion ==
    /\ Ready
    /\ snapshot_blob.has_data
    /\ Ran(Outcome("CheckVersion", 0,
                   CheckVersion(snapshot_blob.data, RunningVersion), <<>>, 0))

DoVerifyChecksum ==
    /\ Ready
    /\ snapshot_blob.has_data
    /\ \E g \in GarbageFor(snapshot_blob.data, {kChecksumOffset}) :
        Ran(Outcome("VerifyChecksum", 0,
                    Value(IF VerifyChecksum(snapshot_blob.data, g) THEN 1 ELSE 0),
                    <<>>, 0))

DoExtractStartupData ==
    /\ Ready
    /\ snapshot_blob.has_data
    /\ \E g \in GarbageFor(snapshot_blob.data,
                           {kNumberOfContextsOffset, kReadOnlyOffsetOffset}),
          debug \in BOOLEAN :
        Ran(Outcome("ExtractStartupData", 0,
                    ExtractStartupData(snapshot_blob.data, pointer_size, g, debug),
                    <<>>, 0))

DoExtractReadOnlyData ==
    /\ Ready
    /\ snapshot_blob.has_data
    /\ \E g \in GarbageFor(snapshot_blob.data,
                           {kNumberOfContextsOffset, kReadOnlyOffsetOffset,
                            ContextSnapshotOffsetOffset(0)}),
          debug \in BOOLEAN :
        Ran(Outcome("ExtractReadOnlyData", 0,
                    ExtractReadOnlyData(snapshot_blob.data, g, debug), <<>>, 0))

DoExtractContextData ==
    /\ Ready
    /\ snapshot_blob.has_data
    /\ \E index \in Indexes :
       \E g \in GarbageFor(snapshot_blob.data,
                           ContextReads(snapshot_blob.data, index)) :
        Ran(Outcome("ExtractContextData", index,
                    ExtractContextData(snapshot_blob.data, index, g), <<>>, 0))

DoHasContextSnapshot ==
    /\ Ready
    /\ \E index \in Indexes :
       \E g \in GarbageFor(snapshot_blob.data, {kNumberOfContextsOffset}) :
        Ran(Outcome("HasContextSnapshot", index,
                    HasContextSnapshot(snapshot_blob, index, g), <<>>, 0))

DoInitialize ==
    /\ Ready
    /\ \E success \in {0, 1}, debug \in BOOLEAN :
       \E g \in GarbageFor(snapshot_blob.data, InitializeReads(snapshot_blob.data)) :
        LET f == Initialize(snapshot_blob, RunningVersion, pointer_size, g,
                            debug, success)
        IN Ran(Outcome("Initialize", 0, [Value(f.value) EXCEPT !.fatal = f.fatal],
                       f.steps, success))

DoNewContextFromSnapshot ==
    /\ Ready
    /\ \E index \in Indexes, result \in {0, 1} :
       \E g \in GarbageFor(snapshot_blob.data,
                        {kRehashabilityOffset}
                            \cup ContextReads(snapshot_blob.data, index)) :
        LET f == NewContextFromSnapshot(snapshot_blob, index, g, result)
        IN Ran(Outcome("NewContextFromSnapshot", index,
                       [Value(f.value) EXCEPT !.fatal = f.fatal],
                       f.steps, result))

\* The caller takes the outcome of a call that returned; a call that took the
\* fatal path has terminated the process.
Return ==
    /\ ~Ready
    /\ ~last.fatal
    /\ last' = Idle
    /\ UNCHANGED <<pointer_size, creator, snapshot_blob, input, pristine, tampered>>

Next ==
    \/ CreateSnapshotBlob
    \/ CreateSnapshotBlobByOtherBuild
    \/ DetachBlob
    \/ CorruptHeader
    \/ CorruptVersion
    \/ Truncate
    \/ DoExtractNumContexts
    \/ DoExtractRehashability
    \/ DoCheckVersion
    \/ DoVerifyChecksum
    \/ DoExtractStartupData
    \/ DoExtractReadOnlyData
    \/ DoExtractContextData
    \/ DoHasContextSnapshot
    \/ DoInitialize
    \/ DoNewContextFromSnapshot
    \/ Return

Spec == Init /\ [][Next]_vars

\* ------------------------------------------------- blob-building flows
\* CreateSnapshotDataBlobInternal and WarmUpSnapshotDataBlobInternal, one
\* statement per step.  creator.contexts lists the contexts made by
\* v8::Context::New in the order of creation; a context is in scope while the
\* block that declared its handle is open, entered while a Context::Scope on
\* it was opened, and ran once script->Run was called in it.
\* SetDefaultContext and CreateBlob record what they were given.

\* What the scripting engine does with the source text: the string cannot be
\* created, the compilation fails, the run fails (empty result), the run
\* completes, or the run yields a result with an exception left in the
\* TryCatch.
ScriptOutcomes ==
    {"string_failed", "compile_failed", "run_failed", "completed",
     "completed_with_caught"}

ScriptFailed(script) ==
    script \in {"string_failed", "compile_failed", "run_failed"}

\* RunExtraCode without the test of the compile and run results.
RunExtraCodeUnchecked(script) ==
    [entered |-> TRUE,
     ran |-> script \notin {"string_failed", "compile_failed"},
     result |-> IF script = "string_failed" THEN "false"
                ELSE IF script = "completed_with_caught" THEN "fatal"
                ELSE "true"]

\* RunExtraCode: enters the context, then returns false at the first of
\* NewFromUtf8, Compile and Run that fails; CHECKs that nothing was caught.
RunExtraCode(script) ==
    [entered |-> TRUE,
     ran |-> script \notin {"string_failed", "compile_failed"},
     result |-> IF script = "string_failed" THEN "false"
                ELSE IF script = "compile_failed" THEN "false"
                ELSE IF script = "run_failed" THEN "false"
                ELSE IF script = "completed_with_caught" THEN "fatal"
                ELSE "true"]

\* v8::Context::New(isolate): one more context, its handle in scope.
NewContext(contexts) ==
    Append(contexts, [entered |-> FALSE, ran |-> FALSE, in_scope |-> TRUE])

\* The closing brace of a block: its handles leave scope.
LeaveScope(contexts) ==
    [i \in 1..Len(contexts) |-> [contexts[i] EXCEPT !.in_scope = FALSE]]

\* The context the handle `context` of the open block refers to.
ScopeContext(contexts) ==
    IF \E i \in 1..Len(contexts) : contexts[i].in_scope
    THEN CHOOSE i \in 1..Len(contexts) : contexts[i].in_scope
    ELSE 0

\* The contexts after RunExtraCode(isolate, context, ...) on the block's context.
AfterRun(contexts, r) ==
    [contexts EXCEPT ![ScopeContext(contexts)] =
        [@ EXCEPT !.entered = r.entered, !.ran = r.ran]]

BlobUntouched ==
    UNCHANGED <<pointer_size, snapshot_blob, input, pristine, tampered, last>>

At(op, pc) == creator.op = op /\ creator.pc = pc

kCreate == "CreateSnapshotDataBlobInternal"
kWarmUp == "WarmUpSnapshotDataBlobInternal"

\* CreateSnapshotDataBlobInternal(function_code_handling, embedded_source, isolate)
CallCreateSnapshotDataBlobInternal ==
    /\ creator.op = "none"
    /\ \E handling \in {"kClear", "kKeep"}, source \in {"null", "given"},
          isolate \in {"null", "given"} :
        creator' = [NoFlow EXCEPT
            !.op = kCreate, !.pc = "allocate",
            !.args = [NoArgs EXCEPT !.function_code_handling = handling,
                                    !.source = source, !.isolate = isolate],
            !.isolate = isolate]
    /\ BlobUntouched

\* if (isolate == nullptr) isolate = v8::Isolate::Allocate();
CreateAllocateIsolate ==
    /\ At(kCreate, "allocate")
    /\ creator' = [creator EXCEPT
           !.isolate = IF creator.isolate = "null" THEN "allocated" ELSE @,
           !.pc = "creator"]
    /\ BlobUntouched

\* v8::SnapshotCreator snapshot_creator(isolate);
CreateNewSnapshotCreator ==
    /\ At(kCreate, "creator")
    /\ creator' = [creator EXCEPT !.has_creator = TRUE, !.pc = "context"]
    /\ BlobUntouched

\* v8::Local<v8::Context> context = v8::Context::New(isolate);
CreateNewContext ==
    /\ At(kCreate, "context")
    /\ creator' = [creator EXCEPT !.contexts = NewContext(@), !.pc = "run"]
    /\ BlobUntouched

\* if (embedded_source != nullptr && !RunExtraCode(...)) return {};
CreateRunExtraCode ==
    /\ At(kCreate, "run")
    /\ IF creator.args.source = "null"
       THEN creator' = [creator EXCEPT !.pc = "set_default"]
       ELSE \E script \in ScriptOutcomes :
              LET r == RunExtraCode(script)
              IN creator' = [creator EXCEPT
                    !.script = script,
                    !.run_extra_code = r.result,
                    !.contexts = IF r.result = "false"
                                 THEN LeaveScope(AfterRun(@, r))
                                 ELSE AfterRun(@, r),
                    !.result = IF r.result = "false" THEN "empty"
                               ELSE IF r.result = "fatal" THEN "fatal" ELSE @,
                    !.pc = IF r.result = "false" THEN "done"
                           ELSE IF r.result = "fatal" THEN "fatal"
                           ELSE "set_default"]
    /\ BlobUntouched

\* snapshot_creator.SetDefaultContext(context); and the end of the block.
CreateSetDefaultContext ==
    /\ At(kCreate, "set_default")
    /\ creator' = [creator EXCEPT
           !.default_context = ScopeContext(creator.contexts),
           !.contexts = LeaveScope(@),
           !.pc = "create_blob"]
    /\ BlobUntouched

\* return snapshot_creator.CreateBlob(function_code_handling);
CreateCreateBlob ==
    /\ At(kCreate, "create_blob")
    /\ creator' = [creator EXCEPT
           !.serialized =
               [context |-> creator.default_context,
                function_code_handling |-> creator.args.function_code_handling],
           !.result = "blob",
           !.pc = "done"]
    /\ BlobUntouched

\* WarmUpSnapshotDataBlobInternal(cold_snapshot_blob, warmup_source), with its
\* two CHECKs on the arguments.
CallWarmUpSnapshotDataBlobInternal ==
    /\ creator.op = "none"
    /\ \E cold_data \in {"null", "data"}, cold_raw_size \in {0, 1},
          source \in {"null", "given"} :
        LET ok == cold_raw_size > 0 /\ cold_data # "null" /\ source # "null"
        IN creator' = [NoFlow EXCEPT
               !.op = kWarmUp,
               !.pc = IF ok THEN "creator" ELSE "fatal",
               !.result = IF ok THEN "pending" ELSE "fatal",
               !.args = [NoArgs EXCEPT !.source = source,
                                       !.cold_data = cold_data,
                                       !.cold_raw_size = cold_raw_size]]
    /\ BlobUntouched

\* v8::SnapshotCreator snapshot_creator(nullptr, &cold_snapshot_blob);
\* isolate = snapshot_creator.GetIsolate();  Loading the cold blob runs the
\* fatal checks of Snapshot::Initialize.
WarmUpNewSnapshotCreator ==
    /\ At(kWarmUp, "creator")
    /\ \E loaded \in BOOLEAN :
        creator' = IF loaded
                   THEN [creator EXCEPT !.has_creator = TRUE,
                                        !.isolate = "from_cold_blob",
                                        !.pc = "context"]
                   ELSE [creator EXCEPT !.result = "fatal", !.pc = "fatal"]
    /\ BlobUntouched

\* First block: v8::Local<v8::Context> context = v8::Context::New(isolate);
WarmUpNewContext ==
    /\ At(kWarmUp, "context")
    /\ creator' = [creator EXCEPT !.contexts = NewContext(@), !.pc = "run"]
    /\ BlobUntouched

\* if (!RunExtraCode(isolate, context, warmup_source, "<warm-up>")) return {};
\* and the end of the first block.
WarmUpRunExtraCode ==
    /\ At(kWarmUp, "run")
    /\ \E script \in ScriptOutcomes :
        LET r == RunExtraCode(script)
        IN creator' = [creator EXCEPT
              !.script = script,
              !.run_extra_code = r.result,
              !.contexts = IF r.result = "fatal" THEN AfterRun(@, r)
                           ELSE LeaveScope(AfterRun(@, r)),
              !.result = IF r.result = "false" THEN "empty"
                         ELSE IF r.result = "fatal" THEN "fatal" ELSE @,
              !.pc = IF r.result = "false" THEN "done"
                     ELSE IF r.result = "fatal" THEN "fatal"
                     ELSE "notify"]
    /\ BlobUntouched

\* Second block: isolate->ContextDisposedNotification(false);
WarmUpContextDisposedNotification ==
    /\ At(kWarmUp, "notify")
    /\ creator' = [creator EXCEPT !.notified = @ + 1, !.pc = "second_context"]
    /\ BlobUntouched

\* The second block without a Context::New of its own: the script's context
\* is taken again.
WarmUpReuseScriptContext ==
    /\ At(kWarmUp, "second_context")
    /\ creator' = [creator EXCEPT
           !.contexts = [@ EXCEPT ![1] = [@ EXCEPT !.in_scope = TRUE]],
           !.pc = "set_default"]
    /\ BlobUntouched

\* Second block: v8::Local<v8::Context> context = v8::Context::New(isolate);
WarmUpSecondContext ==
    /\ At(kWarmUp, "second_context")
    /\ creator' = [creator EXCEPT !.contexts = NewContext(@),
                                  !.pc = "set_default"]
    /\ BlobUntouched

\* snapshot_creator.SetDefaultContext(context); and the end of the block.
WarmUpSetDefaultContext ==
    /\ At(kWarmUp, "set_default")
    /\ creator' = [creator EXCEPT
           !.default_context = ScopeContext(creator.contexts),
           !.contexts = LeaveScope(@),
           !.pc = "create_blob"]
    /\ BlobUntouched

\* return snapshot_creator.CreateBlob(FunctionCodeHandling::kKeep);
WarmUpCreateBlob ==
    /\ At(kWarmUp, "create_blob")
    /\ creator' = [creator EXCEPT
           !.serialized = [context |-> creator.default_context,
                           function_code_handling |-> "kKeep"],
           !.result = "blob",
           !.pc = "done"]
    /\ BlobUntouched

\* The caller takes the returned v8::StartupData (creator.result keeps which
\* one it got); a flow that took the fatal path has terminated the process.
CreatorReturn ==
    /\ creator.pc = "done"
    /\ creator' = [NoFlow EXCEPT !.result = creator.result]
    /\ BlobUntouched

CreatorNext ==
    \/ CallCreateSnapshotDataBlobInternal
    \/ CreateAllocateIsolate
    \/ CreateNewSnapshotCreator
    \/ CreateNewContext
    \/ CreateRunExtraCode
    \/ CreateSetDefaultContext
    \/ CreateCreateBlob
    \/ CallWarmUpSnapshotDataBlobInternal
    \/ WarmUpNewSnapshotCreator
    \/ WarmUpNewContext
    \/ WarmUpRunExtraCode
    \/ WarmUpContextDisposedNotification
    \/ WarmUpSecondContext
    \/ WarmUpSetDefaultContext
    \/ WarmUpCreateBlob
    \/ CreatorReturn

CreatorSpec == Init /\ [][CreatorNext]_vars

\* ================================================================ claims
Data == snapshot_blob.data
RawSize == Len(snapshot_blob.data)
\* A header word of the attached blob (used where the word lies inside it).
Stored(offset) == GetHeaderValue(snapshot_blob.data, offset, <<0, 0, 0>>)
HeaderHolds(offset) == InBounds(snapshot_blob.data, offset)
NumInputContexts == Len(input.contexts)

\* The view of the last call lies inside the blob, and the bytes it covers.
ViewInBounds == last.length_hi = 0 /\ last.start + last.length <= RawSize
Extracted == ViewBytes(snapshot_blob.data, last)

IsExtract ==
    \/ last.op \in {"ExtractStartupData", "ExtractReadOnlyData"}
    \/ last.op = "ExtractContextData" /\ last.index < NumInputContexts

ExpectedSegment ==
    IF last.op = "ExtractStartupData" THEN input.startup
    ELSE IF last.op = "ExtractReadOnlyData" THEN input.read_only
    ELSE input.contexts[last.index + 1]

RoundTripHolds ==
    ~last.fatal /\ ViewInBounds /\ Extracted = ExpectedSegment

RoundTripInputs ==
    /\ input.startup # <<>>
    /\ input.read_only # <<>>
    /\ NumInputContexts >= 1
    /\ input.contexts[NumInputContexts] # <<>>

\* C1 as stated: for ANY startup segment, read-only segment and 0..k context
\* segments, every Extract* on the assembled blob returns exactly the input
\* segment without taking the fatal path.
C1_RoundTripAnySegments ==
    (pristine /\ IsExtract) => RoundTripHolds

\* C1 amended: for a non-empty startup segment, a non-empty read-only segment
\* and one or more context segments of which the last is non-empty (any rehash
\* flag), every Extract* on the assembled blob returns exactly the input
\* segment bytes, inside the blob, without taking the fatal path.
C1_RoundTrip ==
    (pristine /\ RoundTripInputs /\ IsExtract) => RoundTripHolds

C1_Witness ==
    /\ pristine /\ RoundTripInputs
    /\ NumInputContexts >= 2
    /\ last.op = "ExtractContextData"
    /\ last.index = NumInputContexts - 1
    /\ ~last.fatal
    /\ Extracted = input.contexts[NumInputContexts]

\* The header words the last Extract* call read all lie inside the blob.
ReadsInsideBlob ==
    \A offset \in
        (IF last.op = "ExtractStartupData"
         THEN {kNumberOfContextsOffset, kReadOnlyOffsetOffset}
         ELSE IF last.op = "ExtractReadOnlyData"
         THEN {kReadOnlyOffsetOffset, ContextSnapshotOffsetOffset(0)}
         ELSE ContextReads(snapshot_blob.data, last.index)) :
        HeaderHolds(offset)

\* C2 as stated: for any blob contents (here: any whose header words lie inside
\* the blob), ExtractStartupData, ExtractReadOnlyData and ExtractContextData(i)
\* either take the fatal path or return a view with start <= end <=
\* total_length; a header with ContextOffset[i+1] < ContextOffset[i] never
\* yields a view whose length wrapped around.
C2_ViewsInBounds ==
    (last.op \in {"ExtractStartupData", "ExtractReadOnlyData",
                  "ExtractContextData"} /\ ReadsInsideBlob /\ ~last.fatal)
        => ViewInBounds

\* C3: ExtractContextData(i) takes the fatal path when i >= num_contexts, and
\* when the stored offset of context i, or of context i+1 for i not the last,
\* is total_length or more.
C3_BoundsRejection ==
    (last.op = "ExtractContextData" /\ HeaderHolds(kNumberOfContextsOffset))
        => LET n == Stored(kNumberOfContextsOffset)
               at == ContextSnapshotOffsetOffset(last.index)
               next == ContextSnapshotOffsetOffset(last.index + 1)
           IN /\ (last.index >= n) => last.fatal
              /\ (last.index < n /\ HeaderHolds(at) /\ Stored(at) >= RawSize)
                    => last.fatal
              /\ (last.index < n - 1 /\ HeaderHolds(next)
                    /\ Stored(next) >= RawSize)
                    => last.fatal

C3_Witness ==
    /\ last.op = "ExtractContextData"
    /\ HeaderHolds(ContextSnapshotOffsetOffset(last.index + 1))
    /\ last.index < Stored(kNumberOfContextsOffset) - 1
    /\ Stored(ContextSnapshotOffsetOffset(last.index)) < RawSize
    /\ Stored(ContextSnapshotOffsetOffset(last.index + 1)) > RawSize
    /\ last.fatal

\* The offsets an assembled blob stores, in order, with the blob length last,
\* and the segments that lie between them.
StoredOffsets ==
    <<StartupSnapshotOffset(Stored(kNumberOfContextsOffset), pointer_size),
      Stored(kReadOnlyOffsetOffset)>>
        \o [i \in 1..NumInputContexts |->
                Stored(ContextSnapshotOffsetOffset(i - 1))]
        \o <<RawSize>>
InputSegments == <<input.startup, input.read_only>> \o input.contexts

\* C4 as stated: in every assembled blob, for any input segments, the stored
\* offsets are strictly increasing and strictly below the blob length.
C4_StrictlyIncreasing ==
    pristine =>
        \A j \in 1..(Len(StoredOffsets) - 1) :
            StoredOffsets[j] < StoredOffsets[j + 1]

\* C4 amended: in every assembled blob each stored offset is the previous one
\* plus the length of the segment between them (the blob length closing the
\* chain): never smaller than the previous one, and strictly greater exactly
\* when that segment is non-empty.
C4_MonotonicOffsets ==
    pristine =>
        /\ Stored(kNumberOfContextsOffset) = NumInputContexts
        /\ \A j \in 1..(Len(StoredOffsets) - 1) :
            /\ StoredOffsets[j + 1] = StoredOffsets[j] + Len(InputSegments[j])
            /\ StoredOffsets[j] <= StoredOffsets[j + 1]
            /\ (StoredOffsets[j] < StoredOffsets[j + 1])
                   <=> (InputSegments[j] # <<>>)

C4_Witness ==
    /\ pristine
    /\ NumInputContexts >= 2
    /\ input.startup # <<>> /\ input.contexts[1] = <<>>
    /\ StoredOffsets[1] < StoredOffsets[2]
    /\ StoredOffsets[3] = StoredOffsets[4]

\* The version field agrees with the running version on its characters and
\* the NUL that ends them.
SameVersionString ==
    SubSeq(VersionField(snapshot_blob.data), 1, Len(RunningVersion) + 1)
        = RunningVersion \o <<0>>
VersionFieldHeld == kVersionStringOffset + kVersionStringLength < RawSize

\* C5 as stated: CheckVersion takes the fatal path whenever any of the 64
\* bytes of the version field differs from the running build's null-padded
\* version (bytes after the first NUL included), and passes only when all 64
\* bytes are identical.
C5_AllBytesCompared ==
    (last.op = "CheckVersion" /\ VersionFieldHeld)
        => (~last.fatal
                <=> VersionField(snapshot_blob.data)
                        = VersionBuffer(RunningVersion))

\* C5 amended: CheckVersion compares the version field with the running
\* build's version as C strings bounded by 64 bytes: it takes the fatal path
\* when a byte differs at or before the first NUL of the running version (or
\* the blob is not longer than the field's end), and passes when those bytes
\* are identical, whatever the bytes after that NUL are.
C5_VersionGate ==
    (last.op = "CheckVersion")
        => (~last.fatal <=> (VersionFieldHeld /\ SameVersionString))

C5_Witness ==
    /\ last.op = "CheckVersion"
    /\ ~last.fatal
    /\ VersionField(snapshot_blob.data) # VersionBuffer(RunningVersion)

\* C6: in every assembled blob the checksum field holds the checksum of the
\* bytes from offset 12 to the end of the finished blob, so VerifyChecksum
\* returns true on it, also after the context-count or rehashability field
\* (bytes 0..7) were overwritten.
C6_ChecksumCoverage ==
    /\ pristine =>
          Stored(kChecksumOffset)
              = Checksum(SubSeq(snapshot_blob.data, 13, RawSize))
    /\ (last.op = "VerifyChecksum"
            /\ (pristine \/ (tampered # {} /\ tampered \subseteq 0..7)))
          => last.value = 1

C6_Witness ==
    /\ last.op = "VerifyChecksum"
    /\ ~pristine /\ tampered # {} /\ tampered \subseteq 0..7
    /\ NumInputContexts >= 1
    /\ last.value = 1

\* C7 as stated: HasContextSnapshot(index) never takes a fatal path, for any
\* attached blob state (raw_size 0 included) and any index.
C7_NeverFatal ==
    (last.op = "HasContextSnapshot") => ~last.fatal

\* C7 amended: HasContextSnapshot(index) returns false if no blob is attached
\* or the data pointer is null; with a data pointer it takes the fatal path
\* if raw_size is 0, and otherwise returns whether index < num_contexts
\* without taking the fatal path.
C7_HasContextSnapshot ==
    (last.op = "HasContextSnapshot")
        => IF ~snapshot_blob.present \/ ~snapshot_blob.has_data
           THEN ~last.fatal /\ last.value = 0
           ELSE IF RawSize = 0 THEN last.fatal
           ELSE /\ ~last.fatal
                /\ HeaderHolds(kNumberOfContextsOffset)
                     => (last.value = 1
                           <=> last.index < Stored(kNumberOfContextsOffset))

C7_Witness ==
    /\ last.op = "HasContextSnapshot"
    /\ snapshot_blob.has_data /\ RawSize = 0
    /\ last.fatal

\* C8 as stated: for a blob assembled with zero contexts, ExtractReadOnlyData
\* returns the view from the stored ReadOnlyOffset to total_length.
C8_ReadOnlyToEnd ==
    (pristine /\ NumInputContexts = 0 /\ last.op = "ExtractReadOnlyData")
        => /\ ~last.fatal
           /\ last.start = Stored(kReadOnlyOffsetOffset)
           /\ last.length_hi = 0
           /\ last.start + last.length = RawSize

\* C8 amended: for a blob assembled with zero contexts, ExtractReadOnlyData has
\* no special case: it bounds the view by the word at the context-0 offset
\* field's place (offset 80, where the payload starts), and either takes the
\* fatal path or returns the view from the stored ReadOnlyOffset to that
\* word, which ends strictly before total_length.
C8_ReadOnlyZeroContexts ==
    (pristine /\ NumInputContexts = 0 /\ last.op = "ExtractReadOnlyData")
        => \/ last.fatal
           \/ /\ last.start = Stored(kReadOnlyOffsetOffset)
              /\ last.length_hi = 0
              /\ last.length > 0
              /\ last.start + last.length < RawSize
              /\ HeaderHolds(ContextSnapshotOffsetOffset(0))
                    => last.start + last.length
                          = Stored(ContextSnapshotOffsetOffset(0))

C8_Witness ==
    /\ pristine /\ NumInputContexts = 0
    /\ last.op = "ExtractReadOnlyData"
    /\ ~last.fatal
    /\ last.length < Len(input.read_only)

\* Position of a call in the flow of the last operation (0: not made).
StepAt(name) ==
    IF \E j \in 1..Len(last.steps) : last.steps[j] = name
    THEN CHOOSE j \in 1..Len(last.steps) : last.steps[j] = name
    ELSE 0

ChecksumMatches ==
    Stored(kChecksumOffset) = Checksum(SubSeq(snapshot_blob.data, 13, RawSize))

\* C9: when a snapshot is available Initialize checks the version, then the
\* checksum, before any segment is extracted or handed to the decoder; a
\* version or checksum mismatch is fatal, the decoder runs only on a blob that
\* passed both, and Initialize returns what the decoder reports; with no
\* snapshot available it returns false and checks nothing.
C9_InitializeOrdering ==
    (last.op = "Initialize")
        => IF ~(snapshot_blob.present /\ RawSize # 0)
           THEN last.steps = <<>> /\ ~last.fatal /\ last.value = 0
           ELSE /\ StepAt("CheckVersion") = 1
                /\ ~(VersionFieldHeld /\ SameVersionString)
                      => (last.fatal /\ last.steps = <<"CheckVersion">>)
                /\ Len(last.steps) >= 2
                      => (StepAt("VerifyChecksum") = 2
                            /\ VersionFieldHeld /\ SameVersionString)
                /\ (Len(last.steps) >= 2 /\ ~ChecksumMatches)
                      => (last.fatal
                            /\ last.steps = <<"CheckVersion", "VerifyChecksum">>)
                /\ \A name \in {"ExtractStartupData", "ExtractReadOnlyData",
                                "ExtractRehashability", "InitWithSnapshot"} :
                      StepAt(name) # 0
                          => (StepAt(name) > 2 /\ ChecksumMatches)
                /\ StepAt("InitWithSnapshot") # 0
                      => (~last.fatal /\ last.value = last.decoder
                            /\ StepAt("InitWithSnapshot") = Len(last.steps))
                /\ ~last.fatal => StepAt("InitWithSnapshot") # 0

C9_Witness ==
    /\ last.op = "Initialize"
    /\ StepAt("InitWithSnapshot") = 6
    /\ ~last.fatal
    /\ last.value = 0 /\ last.decoder = 0

\* C10 as stated: NewContextFromSnapshot is never fatal on its own, for any
\* context_index and any attached blob.
C10_NeverFatal ==
    (last.op = "NewContextFromSnapshot") => ~last.fatal

\* C10 amended: NewContextFromSnapshot returns "no value" if no snapshot is
\* available; otherwise it takes the fatal path when the rehashability field
\* does not lie inside the blob (raw_size <= 4) or is outside {0, 1}, when
\* context_index >= num_contexts, or when the stored offset of that context
\* (or of the next one, unless it is the last) is total_length or more; in
\* every other case it returns what the decoder yields: "no value" on
\* failure, the context otherwise.
C10_NewContextFromSnapshot ==
    (last.op = "NewContextFromSnapshot")
        => IF ~(snapshot_blob.present /\ RawSize # 0)
           THEN last.steps = <<>> /\ ~last.fatal /\ last.value = 0
           ELSE /\ ~last.fatal => last.value = last.decoder
                /\ RawSize <= kRehashabilityOffset => last.fatal
                /\ (HeaderHolds(kRehashabilityOffset)
                      /\ \A offset \in ContextReads(snapshot_blob.data,
                                                     last.index) :
                            HeaderHolds(offset))
                   => LET n == Stored(kNumberOfContextsOffset)
                          at == ContextSnapshotOffsetOffset(last.index)
                          next == ContextSnapshotOffsetOffset(last.index + 1)
                      IN last.fatal <=>
                          \/ Stored(kRehashabilityOffset) \notin {0, 1}
                          \/ last.index >= n
                          \/ Stored(at) >= RawSize
                          \/ (last.index # n - 1 /\ Stored(next) >= RawSize)

C10_Witness ==
    /\ last.op = "NewContextFromSnapshot"
    /\ pristine
    /\ last.index >= NumInputContexts
    /\ last.fatal

\* The contexts of the flow in progress that a script was run in (or entered
\* for one).
ScriptContexts ==
    {i \in 1..Len(creator.contexts) :
        creator.contexts[i].entered \/ creator.contexts[i].ran}

\* C11: in the warm-up flow the context the warm-up script ran in is never
\* the default context; the second context is created only after a successful
\* script run, once the first context left its scope, and after the
\* disposal notification; the default context is that second, untouched
\* context, and CreateBlob serializes it alone, with function code handling
\* Keep.
C11_WarmUpOutput ==
    (creator.op = kWarmUp)
        => /\ creator.default_context \notin ScriptContexts
           /\ Len(creator.contexts) <= 2
           /\ Len(creator.contexts) = 2
                => /\ creator.run_extra_code = "true"
                   /\ creator.contexts[1].ran
                   /\ ~creator.contexts[1].in_scope
                   /\ creator.notified = 1
                   /\ ScriptContexts = {1}
           /\ creator.default_context # 0
                => (creator.default_context = 2 /\ Len(creator.contexts) = 2)
           /\ creator.result = "blob"
                => /\ creator.serialized.context = 2
                   /\ creator.default_context = 2
                   /\ creator.serialized.function_code_handling = "kKeep"
           /\ creator.serialized # NoSerialization => creator.result = "blob"

C11_Witness ==
    /\ creator.op = kWarmUp
    /\ creator.result = "blob"
    /\ creator.contexts[1].ran
    /\ creator.serialized.context = 2

\* C12: in the build-fresh flow (with an embedded source) and in the warm-up
\* flow, a script that fails to be created, compiled or run makes the flow
\* return an empty blob: no fatal path is taken, no default context is set
\* and nothing is serialized; with no embedded source build-fresh runs no
\* script, never returns the empty blob and returns only after CreateBlob
\* serialized its context with the caller's function code handling.
C12_ScriptFailureRecoverable ==
    /\ (creator.op \in {kCreate, kWarmUp} /\ ScriptFailed(creator.script))
          => /\ creator.pc = "done"
             /\ creator.run_extra_code = "false"
             /\ creator.result = "empty"
             /\ creator.default_context = 0
             /\ creator.serialized = NoSerialization
    /\ (creator.op = kCreate /\ creator.args.source = "null")
          => /\ creator.script = "none" /\ creator.run_extra_code = "none"
             /\ creator.result \in {"pending", "blob"}
             /\ creator.pc # "fatal"
             /\ creator.pc = "done"
                  => /\ creator.result = "blob"
                     /\ creator.serialized =
                          [context |-> 1,
                           function_code_handling |->
                               creator.args.function_code_handling]

C12_Witness ==
    /\ creator.op = kWarmUp
    /\ creator.script = "compile_failed"
    /\ creator.pc = "done"
    /\ creator.result = "empty"

====
